---- MODULE Spec2Model ----
(***************************************************************************)
(* A model of auto-away: the Interrupt wait/trigger primitive of           *)
(* asyncirc.py, the Client receive loop and set_away, and the Control      *)
(* fan-out, idle_away loop and main of auto-away.py.                       *)
(*                                                                         *)
(* Tasks run on one asyncio event loop: every action below is one step of  *)
(* one task between two suspension points (or one loop callback).  A       *)
(* future is resolved in the step that resolves it; the task awaiting it   *)
(* resumes in a later step of its own.                                     *)
(***************************************************************************)
EXTENDS Integers, Sequences, FiniteSets, TLC

(* ----------------------------- bounds ---------------------------------- *)
\* Number of tasks that call wait() on the Interrupt under test.
NWaiters == 2
\* The clock of the Interrupt under test is capped: Tick stops there.
MaxWaitTime == 1
\* Largest timeout passed to wait(timeout=...).
MaxTimeout == 1

\* The clock of the whole program is capped: Clock stops there.
MaxTime == 3

\* The idle controller alone is followed through DecayPeriods periods of
\* backoff_decay; the clock moves in single ticks from shortly before the
\* start of a period to FineTicks ticks after it, and skips the rest of the
\* period in one step.
FineTicks == 20
DecayPeriods == 2

(* ----------------------- program constants ----------------------------- *)
\* One tick of the clock is 150 seconds.
\* idle_timeout = 5 * 60.0 seconds
idle_timeout == 2
\* idle_backoff_factor
backoff_factor == 2
\* idle_backoff_max_exp = int(log2(idle_max_timeout / idle_timeout))
backoff_max_exp == 3
\* idle_backoff_deadzone
backoff_deadzone == 1
\* idle_backoff_decay = 24 * 3600.0 seconds
backoff_decay == 576
\* float('inf')
inf == 1000000

(* ------------------------- asyncio.Future ------------------------------ *)
\* timeout=None: wait without a deadline.
NoTimeout == -1000000

\* A task's awaited future is
\*   "none"       no wait() in progress,
\*   "pending"    created by wait(), not done,
\*   "result"     set_result(None) was called (by trigger),
\*   "timeout"    cancelled by wait_for because the timeout elapsed,
\*   "cancelled"  the waiting task was cancelled (CancelledError at resume),
\*   "invalid"    set_result was called on a done future (InvalidStateError).
FutStates == {"none", "pending", "result", "timeout", "cancelled", "invalid"}

\* Future.done()
done(s) == s # "pending"

\* Future.set_result(None)
set_result(s) == IF s = "pending" THEN "result" ELSE "invalid"

InSeq(ws, t) == \E i \in 1..Len(ws) : ws[i] = t

(* --------------------------- Interrupt --------------------------------- *)
\* Interrupt.trigger that wakes the first pending waiter only.
trigger_first(ws, f) ==
    [t \in DOMAIN f |->
        IF /\ InSeq(ws, t)
           /\ ~done(f[t])
           /\ \A i \in 1..Len(ws) :
                 (ws[i] # t /\ ~done(f[ws[i]])) =>
                    \E j \in 1..(i - 1) : ws[j] = t
        THEN set_result(f[t]) ELSE f[t]]

\* Interrupt.trigger: for fut in self._waiters: if not fut.done(): set_result
trigger(ws, f) ==
    [t \in DOMAIN f |->
        IF InSeq(ws, t) /\ ~done(f[t]) THEN set_result(f[t]) ELSE f[t]]

\* Interrupt.wait, up to the await: the new future of task t.
create_future_latched(triggered) == IF triggered THEN "result" ELSE "pending"

\* Interrupt.wait: fut = self._get_loop().create_future()
create_future(triggered) == "pending"

\* Interrupt.wait that suspends before it registers its future.
waiters_append_deferred(ws, t) == ws

\* self._waiters.append(fut)
waiters_append(ws, t) == Append(ws, t)

\* list.remove: drops the first occurrence.
RECURSIVE list_remove(_, _)
list_remove(ws, t) ==
    IF ws = <<>> THEN <<>>
    ELSE IF Head(ws) = t THEN Tail(ws)
    ELSE <<Head(ws)>> \o list_remove(Tail(ws), t)

\* Interrupt.wait's finally clause left out.
waiters_keep(ws, t) == ws

\* Interrupt.wait: finally: self._waiters.remove(fut)
waiters_remove(ws, t) == list_remove(ws, t)

\* asyncio.wait_for(fut, timeout): the timeout set at time `start` is due.
timer_due_early(timeout, start, clock) ==
    timeout # NoTimeout /\ clock + 1 >= start + timeout

timer_due(timeout, start, clock) ==
    timeout # NoTimeout /\ clock >= start + timeout

\* Interrupt.wait answering True to a timeout as well.
wait_outcome_true(s) ==
    CASE s = "result"  -> "True"
      [] s = "timeout" -> "True"
      [] OTHER         -> "CancelledError"

wait_outcome(s) ==
    CASE s = "result"  -> "True"
      [] s = "timeout" -> "False"
      [] OTHER         -> "CancelledError"

(* ---------------------------- variables -------------------------------- *)
VARIABLES
    now,        \* the monotonic clock (time.monotonic, loop.time)
    \* The Interrupt under test and the tasks waiting on it
    waiters,    \* Interrupt._waiters: the futures, named by their tasks
    fut,        \* fut[w]: the future of task w's wait() call
    wtimeout,   \* wtimeout[w]: the timeout argument of w's wait() call
    wstart,     \* wstart[w]: the clock when w's wait() call registered
    wpc,        \* wpc[w]: "idle" | "waiting" (suspended in wait())
    ret,        \* ret[w]: how w's last wait() call ended
    everTrig,   \* history: trigger() has been called
    trigd       \* history: trigger() was called since w's wait() registered

VARIABLES
    \* main and Control
    args,         \* main's parameter: the socket paths of the command line
    main_pc,      \* "running" | "aborting" | "done" | "failed"
    conn,         \* conn[k]: the task Control.unix_socket_client(args[k])
    clients,      \* Control.clients: path -> client (NoClient: no entry)
    writer_closed,\* writer_closed[k]: writer.close() was called
    \* Client
    my_nick,      \* Client.my_nick
    line_bound,   \* communicate's local variable `line` has a value
    is_away,      \* Client.is_away: "None" | "False" | "True"
    away_waiters, \* away_waiters[k]: Client.away_changed._waiters
    \* idle_away
    idle_pc,      \* "wait" | "set_away" | "RuntimeError" | "ExceptionGroup"
                  \* | "cancelled"
    idle_cancel,  \* idle_task.cancel() was called inside Control.set_away
    backoff_exp,
    idle_timer,
    backoff_timer,
    decay_timer,
    idle_waiters, \* Control.idle_interrupt._waiters
    idle_wait,    \* timeout and start of idle_away's wait() call
    \* Control.set_away: the TaskGroup of Client.set_away tasks
    away_wanted,  \* the awayness argument: "None" (no call) | "False" | "True"
    sa,           \* sa[k]: the task client.set_away(awayness) of client k
    tg_aborting,  \* TaskGroup._aborting
    wrote,        \* wrote[k]: what k's set_away call has written, while it
                  \* runs
    tfut,         \* tfut[t]: the future task t awaits in Interrupt.wait
    \* history
    assumed,      \* is_away[k] is still communicate()'s initial False
    acked_as,     \* is_away[k] when away_changed resolved k's pending
                  \* set_away, until that call resumes
    requested     \* the awayness arguments of the Control.set_away calls
                  \* made by the latest iteration of idle_away's loop

VARIABLES
    \* parse_line and Timer, on their own
    line_parts,   \* the parts of the line given to parse_line
    parsed,       \* what parse_line returned for it
    timer         \* a Timer object

ivars == <<waiters, fut, wtimeout, wstart, wpc, ret, everTrig, trigd>>

mvars == <<main_pc, conn, clients, writer_closed>>
cvars == <<my_nick, line_bound, is_away, assumed>>
tvars == <<backoff_exp, idle_timer, backoff_timer, decay_timer>>
gvars == <<away_wanted, sa, tg_aborting, wrote, acked_as>>
fvars == <<line_parts, parsed, timer>>
pvars == <<args, requested, mvars, cvars, tvars, gvars, away_waiters, idle_pc,
           idle_cancel, idle_waiters, idle_wait, tfut>>
svars == <<pvars, fvars>>

vars == <<now, ivars, svars>>

(* ------------------------------ Timer ---------------------------------- *)
\* Timer(duration): started_at = self.clock()
Timer(duration, clock) == [started_at |-> clock, duration |-> duration]

\* Timer(duration, started_at=start_at)
TimerAt(duration, start_at) == [started_at |-> start_at, duration |-> duration]

\* Timer.never().  Nothing reads the start of a timer that never expires
\* (inf - x = inf), so it is kept at 0.
\* (a sentinel that is an ordinary timer of the base duration)
never_finite(clock) == TimerAt(idle_timeout, clock)
never(clock) == TimerAt(inf, 0)

expires(t) == IF t.duration >= inf THEN inf ELSE t.started_at + t.duration

\* (a timer that also runs at its start and at its deadline)
is_running_closed(t, clock) == t.started_at <= clock /\ clock <= expires(t)
is_running(t, clock) == t.started_at < clock /\ clock < expires(t)

\* (a timer that has expired already at its deadline)
is_expired_closed(t, clock) == expires(t) <= clock
is_expired(t, clock) == expires(t) < clock

is_never(t) == inf <= expires(t)

elapsed(t, clock) == clock - t.started_at

remaining(t, clock) == t.duration - elapsed(t, clock)

RECURSIVE pow(_, _)
pow(b, e) == IF e = 0 THEN 1 ELSE b * pow(b, e - 1)

\* (an increment that is not clamped)
min_unclamped(a, b) == a
min(a, b) == IF a < b THEN a ELSE b
max(a, b) == IF a > b THEN a ELSE b

\* idle_away.make_idle_timer
make_idle_timer(exp, clock) ==
    Timer(idle_timeout * pow(backoff_factor, exp), clock)

\* (a window that starts at the idle deadline instead of around it)
make_backoff_timer_late(idle) ==
    TimerAt(idle.duration * backoff_deadzone, expires(idle))
\* idle_away.make_backoff_timer
make_backoff_timer(idle) ==
    LET duration == idle.duration * backoff_deadzone
        start_at == expires(idle) - (duration \div 2)
    IN  TimerAt(duration, start_at)

(* ------------------------- tasks and clients --------------------------- *)
\* The program is run with two arguments, so that every client has a
\* sibling: task k is Control.unix_socket_client(args[k]).  Paths are
\* numbered.
Conns == {1, 2}
Paths == {1, 2}
\* The command lines: two proxy sockets, or the same socket twice
distinct_args == <<1, 2>>
duplicate_args == <<1, 1>>
\* a path with no entry in Control.clients
NoClient == 0
\* the task idle_away(control); task k >= 1 is client k's set_away
IdleTask == 0
Tasks == {IdleTask} \cup Conns

\* self.clients.values()
Registered == {clients[p] : p \in Paths} \ {NoClient}

\* Client.set_away: awaycmd
awaycmd(awayness) == IF awayness = "True" THEN "AWAY :Auto-away" ELSE "AWAY"

\* Client.set_away: if self.is_away != awayness
needs_change_always(current, awayness) == TRUE

needs_change(current, awayness) == current # awayness

\* Client.set_away: assert self.is_away == awayness
assert_away_off(current, awayness) == TRUE

assert_away(current, awayness) == current = awayness

(* ------------------------------ parse_line ----------------------------- *)
\* A str is a sequence of characters, a character a string of length one;
\* positions count from 1, and a slice [a, b) is the characters a..b-1.
\* None is a value that equals no str.
None == <<"None">>

\* The byte 0xFF, at which UTF-8 decoding fails, and the character that
\* latin1 decodes it to (a letter).
InvalidByte == "FF"
Latin1FF == "U+00FF"

\* \s, \d and \w of the re module
whitespace == {" ", "\t", "\n", "\r", "\f"}
digits == {"0", "1", "2", "3", "4", "5", "6", "7", "8", "9"}
uppercase ==
    <<"A", "B", "C", "D", "E", "F", "G", "H", "I", "J", "K", "L", "M", "N",
      "O", "P", "Q", "R", "S", "T", "U", "V", "W", "X", "Y", "Z">>
lowercase ==
    <<"a", "b", "c", "d", "e", "f", "g", "h", "i", "j", "k", "l", "m", "n",
      "o", "p", "q", "r", "s", "t", "u", "v", "w", "x", "y", "z">>
word ==
    digits \cup {uppercase[i] : i \in 1..26} \cup {lowercase[i] : i \in 1..26}
           \cup {"_", Latin1FF}

\* line_bytes.decode('utf-8'): fails on an invalid byte
can_decode(line_bytes) ==
    \A i \in 1..Len(line_bytes) : line_bytes[i] # InvalidByte

\* line_bytes.decode('latin1'): every byte is a character
decode_latin1(line_bytes) ==
    [i \in 1..Len(line_bytes) |->
        IF line_bytes[i] = InvalidByte THEN Latin1FF ELSE line_bytes[i]]

\* str.lower
str_lower(t) ==
    [i \in 1..Len(t) |->
        IF \E j \in 1..26 : uppercase[j] = t[i]
        THEN lowercase[CHOOSE j \in 1..26 : uppercase[j] = t[i]]
        ELSE t[i]]

\* t[a:b]
slice(t, a, b) == SubSeq(t, a, b - 1)

\* The end of the longest run of characters of (not of) cls that starts at
\* position p: a greedy X* or [^X]*.
span(t, p, cls) ==
    CHOOSE q \in p..(Len(t) + 1) :
        /\ \A i \in p..(q - 1) : t[i] \in cls
        /\ q = Len(t) + 1 \/ t[q] \notin cls

span_not(t, p, cls) ==
    CHOOSE q \in p..(Len(t) + 1) :
        /\ \A i \in p..(q - 1) : t[i] \notin cls
        /\ q = Len(t) + 1 \/ t[q] \in cls

SetMax(S) == CHOOSE x \in S : \A y \in S : y <= x
SetMin(S) == CHOOSE x \in S : \A y \in S : x <= y

\* str.split(): the maximal runs of characters that are not whitespace
\* (a token starts at a and ends before b)
RECURSIVE str_split_at(_, _)
str_split_token(t, a, b) == <<slice(t, a, b)>> \o str_split_at(t, b)

str_split_at(t, p) ==
    IF span(t, p, whitespace) > Len(t) THEN <<>>
    ELSE str_split_token(t, span(t, p, whitespace),
                         span_not(t, span(t, p, whitespace), whitespace))

str_split(t) == str_split_at(t, 1)

\* IRC_PAT: @time=(?P<ts>\d\d\d\d-\d\d-\d\dT\d\d:\d\d:\d\d.\d\d\dZ)\s+
\* d stands for \d and . for any character but a newline.  The value is
\* the position after the group, or 0 when the group does not match at p.
ts_prefix ==
    <<"@", "t", "i", "m", "e", "=">>
ts_pattern ==
    <<"d", "d", "d", "d", "-", "d", "d", "-", "d", "d", "T", "d", "d", ":",
      "d", "d", ":", "d", "d", ".", "d", "d", "d", "Z">>
ts_at(t, p, q, e) ==
    IF /\ e <= Len(t)
       /\ slice(t, p, q) = ts_prefix
       /\ \A i \in 1..Len(ts_pattern) :
             CASE ts_pattern[i] = "d" -> t[q + i - 1] \in digits
               [] ts_pattern[i] = "." -> t[q + i - 1] # "\n"
               [] OTHER -> t[q + i - 1] = ts_pattern[i]
       /\ t[e] \in whitespace
    THEN span(t, e, whitespace)
    ELSE 0

match_ts(t, p) ==
    ts_at(t, p, p + Len(ts_prefix), p + Len(ts_prefix) + Len(ts_pattern))

\* IRC_PAT: :(?:(?P<nick>[^!@\s]+)!)?(?:(?P<user>[^@\s]+)@)?(?P<host>[^\s]+)\s+
\* The token after the colon is [q0, q1) and must be followed by
\* whitespace.  Each optional group is tried present before absent, and
\* the host must not be empty.
no_source(p) == [ok |-> FALSE, end |-> p]

source_found(t, q1, nick, user, h0) ==
    [ok |-> TRUE, end |-> span(t, q1, whitespace),
     nick |-> nick, user |-> user, host |-> slice(t, h0, q1)]

\* (?P<user>[^@\s]+)@ at u0, with a host left after it
user_end(t, u0) == span_not(t, u0, {"@"} \cup whitespace)
has_user(t, u0, q1) == user_end(t, u0) > u0 /\ user_end(t, u0) + 1 < q1

\* (?P<nick>[^!@\s]+)! at q0, where j1 is the end of [^!@\s]+
has_nick(t, q0, q1, j1) == j1 > q0 /\ j1 < q1 /\ t[j1] = "!"

source_groups(t, q0, q1, j1) ==
    IF has_nick(t, q0, q1, j1) /\ has_user(t, j1 + 1, q1)
    THEN source_found(t, q1, slice(t, q0, j1),
                      slice(t, j1 + 1, user_end(t, j1 + 1)),
                      user_end(t, j1 + 1) + 1)
    ELSE IF has_nick(t, q0, q1, j1) /\ j1 + 1 < q1
    THEN source_found(t, q1, slice(t, q0, j1), None, j1 + 1)
    ELSE IF has_user(t, q0, q1)
    THEN source_found(t, q1, None, slice(t, q0, user_end(t, q0)),
                      user_end(t, q0) + 1)
    ELSE source_found(t, q1, None, None, q0)

source_token(t, p, q0, q1) ==
    IF q1 > Len(t) \/ q1 = q0 THEN no_source(p)
    ELSE source_groups(t, q0, q1,
                       span_not(t, q0, {"!", "@"} \cup whitespace))

match_source(t, p) ==
    IF p > Len(t) \/ t[p] # ":" THEN no_source(p)
    ELSE source_token(t, p, p + 1, span_not(t, p + 1, whitespace))

\* IRC_PAT, after the command:
\*   \s*(?:(?P<spargs>.*?)\s*(?::(?P<text>[^\r\n]*))?)(?:\r\n|[\r\n])
\* a is the end of the first \s* (greedy: the largest that matches), b the
\* end of spargs (lazy: the smallest), c the end of the second \s*
\* (greedy); at c the text group is tried before the end of line.
text_end(t, c) == span_not(t, c + 1, {"\r", "\n"})
TextOk(t, c) == c <= Len(t) /\ t[c] = ":" /\ text_end(t, c) <= Len(t)
EolOk(t, c) == c <= Len(t) /\ t[c] \in {"\r", "\n"}
Cs(t, b) == {c \in b..span(t, b, whitespace) : TextOk(t, c) \/ EolOk(t, c)}
Bs(t, a) ==
    {b \in a..(Len(t) + 1) :
        /\ \A i \in a..(b - 1) : t[i] # "\n"
        /\ Cs(t, b) # {}}
As(t, p) == {a \in p..span(t, p, whitespace) : Bs(t, a) # {}}

tail_groups(t, a, b, c) ==
    [ok |-> TRUE,
     spargs |-> slice(t, a, b),
     text |-> IF TextOk(t, c) THEN slice(t, c + 1, text_end(t, c)) ELSE None]

tail_after_spargs(t, a, b) == tail_groups(t, a, b, SetMax(Cs(t, b)))

tail_after_space(t, a) == tail_after_spargs(t, a, SetMin(Bs(t, a)))

match_tail(t, p) ==
    IF As(t, p) = {} THEN [ok |-> FALSE]
    ELSE tail_after_space(t, SetMax(As(t, p)))

\* IRC_PAT: \s*(?P<command>\w+), then the rest; [c0, c1) is the command
match_command(line, src, c0, c1, tail) ==
    IF c1 > c0 /\ tail.ok
    THEN [ok |-> TRUE,
          nick |-> IF src.ok THEN src.nick ELSE None,
          user |-> IF src.ok THEN src.user ELSE None,
          host |-> IF src.ok THEN src.host ELSE None,
          command |-> slice(line, c0, c1),
          spargs |-> tail.spargs,
          text |-> tail.text]
    ELSE [ok |-> FALSE]

command_end(line, src, c0, c1) ==
    match_command(line, src, c0, c1, match_tail(line, c1))

command_start(line, src, c0) ==
    command_end(line, src, c0, span(line, c0, word))

after_source(line, src) ==
    command_start(line, src, span(line, src.end, whitespace))

after_ts(line, p0, ts) ==
    after_source(line, match_source(line, IF ts # 0 THEN ts ELSE p0))

after_space(line, p0) == after_ts(line, p0, match_ts(line, p0))

\* re.match(IRC_PAT, line): the groups, or ok = FALSE for no match
IRC_PAT(line) == after_space(line, span(line, 1, whitespace))

\* The string literals of parse_line and of communicate's match statement
parse_failed ==
    <<"p", "a", "r", "s", "e", "_", "f", "a", "i", "l", "e", "d">>
lit_nick ==
    <<"n", "i", "c", "k">>
lit_privmsg ==
    <<"p", "r", "i", "v", "m", "s", "g">>
lit_305 == <<"3", "0", "5">>
lit_306 == <<"3", "0", "6">>

\* parse_line: the Source and the list [cmd, *args]
Source(nick, user, host) == [nick |-> nick, user |-> user, host |-> host]

\* (an empty trailing text taken for an absent one)
parse_groups_truthy(line, m) ==
    IF ~m.ok
    THEN [src |-> Source(None, None, None), args |-> <<parse_failed, line>>]
    ELSE [src |-> Source(m.nick, m.user, m.host),
          args |-> <<str_lower(m.command)>>
                   \o (IF m.spargs # <<>> THEN str_split(m.spargs) ELSE <<>>)
                   \o (IF m.text # None /\ m.text # <<>> THEN <<m.text>>
                       ELSE <<>>)]

parse_groups(line, m) ==
    IF ~m.ok
    THEN [src |-> Source(None, None, None), args |-> <<parse_failed, line>>]
    ELSE [src |-> Source(m.nick, m.user, m.host),
          args |-> <<str_lower(m.command)>>
                   \o (IF m.spargs # <<>> THEN str_split(m.spargs) ELSE <<>>)
                   \o (IF m.text # None THEN <<m.text>> ELSE <<>>)]

parse_line(line) == parse_groups(line, IRC_PAT(line))

(* -------------------------- inbound messages --------------------------- *)
\* The lines a proxy sends (what the reader yields, as bytes): activity of
\* the own nick and of another, the away numerics for the own nick and for
\* another, a line that does not parse, and a line that is not UTF-8.
privmsg_e ==
    <<":", "e", "!", "u", "@", "h", " ", "P", "R", "I", "V", "M", "S", "G",
      " ", "#", "a", " ", ":", "h", "i", "\r", "\n">>
privmsg_x ==
    <<":", "x", "!", "u", "@", "h", " ", "P", "R", "I", "V", "M", "S", "G",
      " ", "#", "a", " ", ":", "h", "i", "\r", "\n">>
unaway_e ==
    <<":", "s", " ", "3", "0", "5", " ", "e", " ", ":", "b", "a", "c", "k",
      "\r", "\n">>
nowaway_e ==
    <<":", "s", " ", "3", "0", "6", " ", "e", " ", ":", "a", "w", "a", "y",
      "\r", "\n">>
nowaway_x ==
    <<"@", "t", "i", "m", "e", "=", "2", "0", "2", "0", "-", "0", "1", "-",
      "0", "1", "T", "0", "0", ":", "0", "0", ":", "0", "0", ".", "0", "0",
      "0", "Z", " ", ":", "s", " ", "3", "0", "6", " ", "x", " ", ":", "a",
      "w", "a", "y", "\r", "\n">>
garbage ==
    <<":", "\r", "\n">>
not_utf8 ==
    <<":", "s", " ", "N", "O", "T", "I", "C", "E", " ", "e", " ", ":",
      "FF", "\r", "\n">>
Inbound ==
    {privmsg_e, privmsg_x, unaway_e, nowaway_e, nowaway_x, garbage, not_utf8}

\* More lines, for a client followed alone: the own nick renamed to f, a
\* rename of another nick, activity of f with the command in lower case,
\* a PRIVMSG whose source is a bare host named like the own nick, another
\* command of the own nick, and the un-away numeric for f.
nick_e_f ==
    <<":", "e", "!", "u", "@", "h", " ", "N", "I", "C", "K", " ", "f", "\r",
      "\n">>
nick_x_y ==
    <<":", "x", "!", "u", "@", "h", " ", "N", "I", "C", "K", " ", ":", "y",
      "\r", "\n">>
privmsg_f ==
    <<":", "f", "!", "u", "@", "h", " ", "p", "r", "i", "v", "m", "s", "g",
      " ", "#", "a", " ", ":", "h", "i", "\r", "\n">>
privmsg_host_e ==
    <<":", "e", " ", "P", "R", "I", "V", "M", "S", "G", " ", "#", "a", " ",
      ":", "h", "i", "\r", "\n">>
notice_e ==
    <<":", "e", "!", "u", "@", "h", " ", "N", "O", "T", "I", "C", "E", " ",
      "#", "a", " ", ":", "h", "i", "\r", "\n">>
unaway_f ==
    <<":", "s", " ", "3", "0", "5", " ", "f", "\r", "\n">>
MoreLines == {nick_e_f, nick_x_y, privmsg_f, privmsg_host_e, notice_e, unaway_f}
Lines == Inbound \cup MoreLines

\* Client.communicate: what parse_line returns for each line that can be
\* decoded, by UTF-8 or else by latin1
Parsed == [line_bytes \in Lines |-> parse_line(decode_latin1(line_bytes))]

\* (a match statement that takes an away numeric whatever its target)
dispatch_any_target(src, margs, nick) ==
    CASE Len(margs) >= 2 /\ margs[1] = lit_nick /\ src.nick = nick -> "nick"
      [] Len(margs) >= 1 /\ margs[1] = lit_privmsg /\ src.nick = nick
            -> "privmsg"
      [] Len(margs) >= 2 /\ margs[1] = lit_305 -> "305"
      [] Len(margs) >= 2 /\ margs[1] = lit_306 -> "306"
      [] OTHER -> "ignored"

\* (a match statement that takes a PRIVMSG whatever its source)
dispatch_any_source(src, margs, nick) ==
    CASE Len(margs) >= 2 /\ margs[1] = lit_nick /\ src.nick = nick -> "nick"
      [] Len(margs) >= 1 /\ margs[1] = lit_privmsg -> "privmsg"
      [] Len(margs) >= 2 /\ margs[1] = lit_305 /\ margs[2] = nick -> "305"
      [] Len(margs) >= 2 /\ margs[1] = lit_306 /\ margs[2] = nick -> "306"
      [] OTHER -> "ignored"

\* Client.communicate: the case of the match statement that a message takes
dispatch(src, margs, nick) ==
    CASE Len(margs) >= 2 /\ margs[1] = lit_nick /\ src.nick = nick -> "nick"
      [] Len(margs) >= 1 /\ margs[1] = lit_privmsg /\ src.nick = nick
            -> "privmsg"
      [] Len(margs) >= 2 /\ margs[1] = lit_305 /\ margs[2] = nick -> "305"
      [] Len(margs) >= 2 /\ margs[1] = lit_306 /\ margs[2] = nick -> "306"
      [] OTHER -> "ignored"

(* ------------------------ the state at start --------------------------- *)
\* no value yet: no line, no result of parse_line (whose args are never
\* empty), no Timer (whose duration is never negative)
NoValue == <<"NoValue">>
NotParsed == [src |-> None, args |-> <<>>]
NoTimer == [started_at |-> 0, duration |-> -1]
\* parse_line and Timer are not exercised on their own.
FunctionsIdle ==
    /\ line_parts = NoValue
    /\ parsed = NotParsed
    /\ timer = NoTimer


\* main has created idle_away and the client tasks; idle_away has run to
\* its first wait() at clock 0; no connection is established yet.
InitSystem ==
    /\ main_pc = "running"
    /\ conn = [k \in Conns |-> "connecting"]
    /\ clients = [p \in Paths |-> NoClient]
    /\ writer_closed = [k \in Conns |-> FALSE]
    /\ my_nick = [k \in Conns |-> None]
    /\ line_bound = [k \in Conns |-> FALSE]
    /\ is_away = [k \in Conns |-> "None"]
    /\ assumed = [k \in Conns |-> FALSE]
    /\ away_waiters = [k \in Conns |-> <<>>]
    /\ idle_pc = "wait"
    /\ idle_cancel = FALSE
    /\ backoff_exp = 0
    /\ idle_timer = make_idle_timer(0, 0)
    /\ backoff_timer = make_backoff_timer(make_idle_timer(0, 0))
    /\ decay_timer = Timer(backoff_decay, 0)
    /\ idle_waiters = <<IdleTask>>
    /\ idle_wait = [timeout |-> remaining(make_idle_timer(0, 0), 0), start |-> 0]
    /\ away_wanted = "None"
    /\ sa = [k \in Conns |-> "none"]
    /\ tg_aborting = FALSE
    /\ wrote = [k \in Conns |-> <<>>]
    /\ tfut = [t \in Tasks |-> IF t = IdleTask THEN "pending" ELSE "none"]
    /\ acked_as = [k \in Conns |-> "None"]
    /\ requested = <<>>

\* The program is not part of the run: the Interrupt is exercised alone.
SystemIdle ==
    /\ args = distinct_args
    /\ main_pc = "done"
    /\ conn = [k \in Conns |-> "closed"]
    /\ clients = [p \in Paths |-> NoClient]
    /\ writer_closed = [k \in Conns |-> TRUE]
    /\ my_nick = [k \in Conns |-> None]
    /\ line_bound = [k \in Conns |-> FALSE]
    /\ is_away = [k \in Conns |-> "None"]
    /\ assumed = [k \in Conns |-> FALSE]
    /\ away_waiters = [k \in Conns |-> <<>>]
    /\ idle_pc = "cancelled"
    /\ idle_cancel = FALSE
    /\ backoff_exp = 0
    /\ idle_timer = never(0)
    /\ backoff_timer = never(0)
    /\ decay_timer = never(0)
    /\ idle_waiters = <<>>
    /\ idle_wait = [timeout |-> NoTimeout, start |-> 0]
    /\ away_wanted = "None"
    /\ sa = [k \in Conns |-> "none"]
    /\ tg_aborting = FALSE
    /\ wrote = [k \in Conns |-> <<>>]
    /\ tfut = [t \in Tasks |-> "none"]
    /\ acked_as = [k \in Conns |-> "None"]
    /\ requested = <<>>

Waiters == 1..NWaiters
Timeouts == {NoTimeout} \cup (0..MaxTimeout)

(* ------------------ the Interrupt with N waiting tasks ----------------- *)
InitInterrupt ==
    /\ now = 0
    /\ waiters = <<>>
    /\ fut = [w \in Waiters |-> "none"]
    /\ wtimeout = [w \in Waiters |-> NoTimeout]
    /\ wstart = [w \in Waiters |-> 0]
    /\ wpc = [w \in Waiters |-> "idle"]
    /\ ret = [w \in Waiters |-> "none"]
    /\ everTrig = FALSE
    /\ trigd = [w \in Waiters |-> FALSE]
    /\ SystemIdle
    /\ FunctionsIdle

\* time passes
Tick ==
    /\ now < MaxWaitTime
    /\ now' = now + 1
    /\ UNCHANGED <<waiters, fut, wtimeout, wstart, wpc, ret, everTrig, trigd>>
    /\ UNCHANGED svars

\* task w calls wait(timeout=to) and suspends
Wait(w, to) ==
    /\ wpc[w] = "idle"
    /\ fut' = [fut EXCEPT ![w] = create_future(everTrig)]
    /\ waiters' = waiters_append(waiters, w)
    /\ wtimeout' = [wtimeout EXCEPT ![w] = to]
    /\ wstart' = [wstart EXCEPT ![w] = now]
    /\ wpc' = [wpc EXCEPT ![w] = "waiting"]
    /\ ret' = [ret EXCEPT ![w] = "none"]
    /\ trigd' = [trigd EXCEPT ![w] = FALSE]
    /\ UNCHANGED <<now, everTrig>>
    /\ UNCHANGED svars

\* some other task calls trigger()
Trigger ==
    /\ fut' = trigger(waiters, fut)
    /\ everTrig' = TRUE
    /\ trigd' = [w \in Waiters |-> trigd[w] \/ wpc[w] = "waiting"]
    /\ UNCHANGED <<now, waiters, wtimeout, wstart, wpc, ret>>
    /\ UNCHANGED svars

\* the loop's timer of wait_for fires: the future is cancelled
Timeout(w) ==
    /\ wpc[w] = "waiting"
    /\ ~done(fut[w])
    /\ timer_due(wtimeout[w], wstart[w], now)
    /\ fut' = [fut EXCEPT ![w] = "timeout"]
    /\ UNCHANGED <<now, waiters, wtimeout, wstart, wpc, ret, everTrig, trigd>>
    /\ UNCHANGED svars

\* the waiting task is cancelled (Task.cancel)
Cancel(w) ==
    /\ wpc[w] = "waiting"
    /\ fut[w] \in {"pending", "result", "timeout"}
    /\ fut' = [fut EXCEPT ![w] = "cancelled"]
    /\ UNCHANGED <<now, waiters, wtimeout, wstart, wpc, ret, everTrig, trigd>>
    /\ UNCHANGED svars

\* task w resumes: wait() ends, its finally clause runs
Resume(w) ==
    /\ wpc[w] = "waiting"
    /\ done(fut[w])
    /\ ret' = [ret EXCEPT ![w] = wait_outcome(fut[w])]
    /\ waiters' = waiters_remove(waiters, w)
    /\ wpc' = [wpc EXCEPT ![w] = "idle"]
    /\ fut' = [fut EXCEPT ![w] = "none"]
    /\ wstart' = [wstart EXCEPT ![w] = 0]
    /\ trigd' = [trigd EXCEPT ![w] = FALSE]
    /\ UNCHANGED <<now, wtimeout, everTrig>>
    /\ UNCHANGED svars

NextInterrupt ==
    \/ Tick
    \/ \E w \in Waiters, to \in Timeouts : Wait(w, to)
    \/ Trigger
    \/ \E w \in Waiters : Timeout(w)
    \/ \E w \in Waiters : Cancel(w)
    \/ \E w \in Waiters : Resume(w)

SpecInterrupt == InitInterrupt /\ [][NextInterrupt]_vars

(* ======================= the whole program ============================= *)
\* The Interrupt under test is not part of the run.
InterruptIdle ==
    /\ waiters = <<>>
    /\ fut = [w \in Waiters |-> "none"]
    /\ wtimeout = [w \in Waiters |-> NoTimeout]
    /\ wstart = [w \in Waiters |-> 0]
    /\ wpc = [w \in Waiters |-> "idle"]
    /\ ret = [w \in Waiters |-> "none"]
    /\ everTrig = FALSE
    /\ trigd = [w \in Waiters |-> FALSE]

Init ==
    /\ now = 0
    /\ args = distinct_args
    /\ InitSystem
    /\ InterruptIdle
    /\ FunctionsIdle

\* The program is started with the same socket path twice.
InitDuplicate ==
    /\ now = 0
    /\ args = duplicate_args
    /\ InitSystem
    /\ InterruptIdle
    /\ FunctionsIdle

\* time passes
Clock ==
    /\ now < MaxTime
    /\ now' = now + 1
    /\ UNCHANGED <<ivars, svars>>

(* ----------------------- Control.unix_socket_client -------------------- *)
\* The finally clause: del self.clients[path]; writer.close().  `how` is
\* the way the task ends when the clause succeeds.  A missing key makes
\* del raise KeyError before the writer is closed.
Finally(k, how) ==
    IF clients[args[k]] = NoClient
    THEN /\ conn' = [conn EXCEPT ![k] = "raised"]
         /\ UNCHANGED <<clients, writer_closed>>
    ELSE /\ clients' = [clients EXCEPT ![args[k]] = NoClient]
         /\ writer_closed' = [writer_closed EXCEPT ![k] = TRUE]
         /\ conn' = [conn EXCEPT ![k] = how]

\* open_unix_connection returns: the client is registered and
\* communicate() runs up to its first read.
Connect(k) ==
    /\ conn[k] = "connecting"
    /\ conn' = [conn EXCEPT ![k] = "open"]
    /\ clients' = [clients EXCEPT ![args[k]] = k]
    /\ my_nick' = [my_nick EXCEPT ![k] = <<"e">>]
    /\ UNCHANGED line_bound
    /\ is_away' = [is_away EXCEPT ![k] = "False"]
    /\ assumed' = [assumed EXCEPT ![k] = TRUE]
    /\ UNCHANGED <<now, ivars, args, fvars, requested, main_pc, writer_closed, tvars, gvars,
                   away_waiters, idle_pc, idle_cancel, idle_waiters,
                   idle_wait, tfut>>

\* Client.communicate: one line is read, decoded, parsed and dispatched.
\* The handler of UnicodeDecodeError prints `line`, which has no value
\* before the first line was decoded: UnboundLocalError.
Recv(k, line_bytes) ==
    /\ conn[k] = "open"
    /\ IF ~can_decode(line_bytes) /\ ~line_bound[k]
       THEN /\ Finally(k, "raised")
            /\ UNCHANGED <<main_pc, cvars, tfut, acked_as>>
       ELSE
       \E m \in {Parsed[line_bytes]} :
       \E case \in {dispatch(m.src, m.args, my_nick[k])} :
       \E away \in {IF case = "305" THEN "False" ELSE "True"} :
           /\ line_bound' = [line_bound EXCEPT ![k] = TRUE]
           /\ my_nick' = [my_nick EXCEPT
                            ![k] = IF case = "nick" THEN m.args[2] ELSE @]
           /\ is_away' = [is_away EXCEPT
                            ![k] = IF case \in {"305", "306"} THEN away ELSE @]
           /\ assumed' = [assumed EXCEPT
                            ![k] = IF case \in {"305", "306"} THEN FALSE ELSE @]
           /\ tfut' = CASE case = "privmsg" -> trigger(idle_waiters, tfut)
                        [] case \in {"305", "306"} ->
                               trigger(away_waiters[k], tfut)
                        [] OTHER -> tfut
           /\ acked_as' = [acked_as EXCEPT
                            ![k] = IF /\ case \in {"305", "306"}
                                      /\ InSeq(away_waiters[k], k)
                                      /\ ~done(tfut[k])
                                   THEN away ELSE @]
           /\ UNCHANGED mvars
    /\ UNCHANGED <<now, ivars, args, fvars, requested, tvars, away_wanted, sa, tg_aborting,
                   wrote, away_waiters, idle_pc, idle_cancel, idle_waiters,
                   idle_wait>>

\* The proxy closes the stream: the receive loop ends and the task returns.
ReadEOF(k) ==
    /\ conn[k] = "open"
    /\ Finally(k, "closed")
    /\ UNCHANGED <<now, ivars, args, fvars, requested, main_pc, cvars, tvars, gvars, away_waiters,
                   idle_pc, idle_cancel, idle_waiters, idle_wait, tfut>>

\* The connection is lost with an error (ConnectionResetError from the
\* reader): communicate() raises, and so does the task.
ReadError(k) ==
    /\ conn[k] = "open"
    /\ Finally(k, "raised")
    /\ UNCHANGED <<now, ivars, args, fvars, requested, main_pc, cvars, tvars, gvars, away_waiters,
                   idle_pc, idle_cancel, idle_waiters, idle_wait, tfut>>

(* -------------------------------- main --------------------------------- *)
\* main's TaskGroup learns that a client task raised: it cancels the
\* other client tasks.  A task still connecting ends at once.
MainAbort ==
    /\ main_pc = "running"
    /\ \E k \in Conns : conn[k] = "raised"
    /\ main_pc' = "aborting"
    /\ conn' = [k \in Conns |->
                  CASE conn[k] = "connecting" -> "cancelled"
                    [] conn[k] = "open"       -> "cancelling"
                    [] OTHER                  -> conn[k]]
    /\ UNCHANGED <<now, ivars, args, fvars, requested, clients, writer_closed, cvars, tvars, gvars,
                   away_waiters, idle_pc, idle_cancel, idle_waiters,
                   idle_wait, tfut>>

\* A cancelled client task resumes with CancelledError.
ConnCancelled(k) ==
    /\ conn[k] = "cancelling"
    /\ Finally(k, "cancelled")
    /\ UNCHANGED <<now, ivars, args, fvars, requested, main_pc, cvars, tvars, gvars, away_waiters,
                   idle_pc, idle_cancel, idle_waiters, idle_wait, tfut>>

\* Every client task has ended: main leaves its TaskGroup and cancels
\* idle_task (asyncio.run does, when the TaskGroup raised).
MainExit ==
    /\ main_pc \in {"running", "aborting"}
    /\ \A k \in Conns : conn[k] \in {"closed", "raised", "cancelled"}
    /\ main_pc' = IF main_pc = "running" THEN "done" ELSE "failed"
    /\ tfut' = [tfut EXCEPT
                  ![IdleTask] = IF idle_pc = "wait" THEN "cancelled" ELSE @]
    /\ idle_cancel' = (idle_pc = "set_away")
    /\ UNCHANGED <<now, ivars, args, fvars, requested, conn, clients, writer_closed, cvars, tvars,
                   gvars, away_waiters, idle_pc, idle_waiters, idle_wait>>

(* ------------------------------ idle_away ------------------------------ *)
\* The top of the loop, with idle timer `it`, after wait()'s finally left
\* the waiters `ws`: the timeout is computed and wait() suspends.
IdleWait(ws, it) ==
    /\ idle_pc' = "wait"
    /\ idle_waiters' = waiters_append(ws, IdleTask)
    /\ tfut' = [tfut EXCEPT ![IdleTask] = create_future(FALSE)]
    /\ idle_wait' = [timeout |-> IF is_never(it) THEN NoTimeout
                                 ELSE remaining(it, now),
                     start |-> now]

\* Control.set_away(awayness): one task per registered client.  With no
\* client the TaskGroup ends without suspending, and the loop goes on.
Control_set_away(awayness, ws, it) ==
    /\ requested' = <<awayness>>
    /\ IF Registered = {}
       THEN /\ IdleWait(ws, it)
            /\ UNCHANGED gvars
       ELSE /\ idle_pc' = "set_away"
            /\ idle_waiters' = ws
            /\ tfut' = [tfut EXCEPT ![IdleTask] = "none"]
            /\ away_wanted' = awayness
            /\ sa' = [k \in Conns |-> IF k \in Registered THEN "created"
                                      ELSE "none"]
            /\ tg_aborting' = FALSE
            /\ wrote' = [k \in Conns |-> <<>>]
            /\ acked_as' = [k \in Conns |-> "None"]
            /\ idle_wait' = [timeout |-> NoTimeout, start |-> 0]

\* The loop's timer of wait_for fires for idle_away's wait().
IdleTimeout ==
    /\ idle_pc = "wait"
    /\ ~done(tfut[IdleTask])
    /\ timer_due(idle_wait.timeout, idle_wait.start, now)
    /\ tfut' = [tfut EXCEPT ![IdleTask] = "timeout"]
    /\ UNCHANGED <<now, ivars, args, fvars, requested, mvars, cvars, tvars, gvars, away_waiters,
                   idle_pc, idle_cancel, idle_waiters, idle_wait>>

\* idle_away resumes from wait() and runs the loop body up to its next
\* suspension.
IdleResume ==
    /\ idle_pc = "wait"
    /\ done(tfut[IdleTask])
    /\ LET interrupted == wait_outcome(tfut[IdleTask])
           ws   == waiters_remove(idle_waiters, IdleTask)
           inc  == IF is_running(backoff_timer, now)
                   THEN min(backoff_exp + 1, backoff_max_exp)
                   ELSE backoff_exp
           dec  == is_expired(decay_timer, now)
           exp  == IF dec THEN max(inc - 1, 0) ELSE inc
           it   == make_idle_timer(exp, now)
       IN  CASE interrupted = "CancelledError" ->
                  /\ idle_pc' = "cancelled"
                  /\ idle_waiters' = ws
                  /\ tfut' = [tfut EXCEPT ![IdleTask] = "none"]
                  /\ idle_wait' = [timeout |-> NoTimeout, start |-> 0]
                  /\ requested' = <<>>
                  /\ UNCHANGED <<tvars, gvars>>
             [] interrupted = "True" ->
                  /\ backoff_exp' = exp
                  /\ decay_timer' = IF dec THEN Timer(backoff_decay, now)
                                    ELSE decay_timer
                  /\ idle_timer' = it
                  /\ backoff_timer' = make_backoff_timer(it)
                  /\ Control_set_away("False", ws, it)
             [] interrupted = "False" /\ is_expired(idle_timer, now) ->
                  /\ idle_timer' = never(now)
                  /\ Control_set_away("True", ws, never(now))
                  /\ UNCHANGED <<backoff_exp, backoff_timer, decay_timer>>
             [] OTHER ->
                  /\ idle_pc' = "RuntimeError"
                  /\ idle_waiters' = ws
                  /\ tfut' = [tfut EXCEPT ![IdleTask] = "none"]
                  /\ idle_wait' = [timeout |-> NoTimeout, start |-> 0]
                  /\ requested' = <<>>
                  /\ UNCHANGED <<tvars, gvars>>
    /\ UNCHANGED <<now, ivars, args, fvars, mvars, cvars, away_waiters, idle_cancel>>

(* --------------------- Client.set_away, in its task -------------------- *)
\* The task starts: set_away runs up to away_changed.wait(), or to its end.
SetAwayStart(k) ==
    /\ sa[k] = "created"
    /\ IF needs_change(is_away[k], away_wanted)
       THEN /\ wrote' = [wrote EXCEPT ![k] = Append(@, awaycmd(away_wanted))]
            /\ away_waiters' = [away_waiters EXCEPT
                                  ![k] = waiters_append(@, k)]
            /\ tfut' = [tfut EXCEPT ![k] = create_future(FALSE)]
            /\ sa' = [sa EXCEPT ![k] = "waiting"]
       ELSE /\ sa' = [sa EXCEPT ![k] = "done"]
            /\ UNCHANGED <<wrote, away_waiters, tfut>>
    /\ UNCHANGED <<now, ivars, args, fvars, requested, mvars, cvars, tvars, away_wanted, tg_aborting,
                   acked_as, idle_pc, idle_cancel, idle_waiters, idle_wait>>

\* The task resumes from away_changed.wait() and runs the assertion.
SetAwayResume(k) ==
    /\ sa[k] = "waiting"
    /\ done(tfut[k])
    /\ away_waiters' = [away_waiters EXCEPT ![k] = waiters_remove(@, k)]
    /\ tfut' = [tfut EXCEPT ![k] = "none"]
    /\ sa' = [sa EXCEPT
                ![k] = CASE wait_outcome(tfut[k]) = "CancelledError" ->
                              "cancelled"
                         [] assert_away(is_away[k], away_wanted) -> "done"
                         [] OTHER -> "failed"]
    /\ wrote' = [wrote EXCEPT ![k] = <<>>]
    /\ acked_as' = [acked_as EXCEPT ![k] = "None"]
    /\ UNCHANGED <<now, ivars, args, fvars, requested, mvars, cvars, tvars, away_wanted, tg_aborting,
                   idle_pc, idle_cancel, idle_waiters, idle_wait>>

(* ------------------ Control.set_away: the TaskGroup -------------------- *)
Finished(k) == sa[k] \in {"none", "done", "failed", "cancelled"}
Failed == \E k \in Conns : sa[k] = "failed"

\* A TaskGroup that ends as soon as one of its tasks is done.
SomeFinished == \E k \in Conns : sa[k] # "none" /\ Finished(k)

\* TaskGroup.__aexit__: while self._tasks: await ...
AllFinished == \A k \in Conns : Finished(k)

\* TaskGroup._abort: every task that is not done is cancelled.  `state` is
\* <<task, future>>; a task cancelled before its first step never runs.
abort_cancels(state) ==
    CASE state[1] = "created" -> <<"cancelled", state[2]>>
      [] state[1] = "waiting" -> <<"waiting", "cancelled">>
      [] OTHER -> state

\* A task of the group failed, or idle_away was cancelled inside the
\* group: the group aborts.
TaskGroupAbort ==
    /\ idle_pc = "set_away"
    /\ ~tg_aborting
    /\ Failed \/ idle_cancel
    /\ tg_aborting' = TRUE
    /\ sa' = [k \in Conns |-> abort_cancels(<<sa[k], tfut[k]>>)[1]]
    /\ tfut' = [t \in Tasks |->
                  IF t = IdleTask THEN tfut[t]
                  ELSE abort_cancels(<<sa[t], tfut[t]>>)[2]]
    /\ UNCHANGED <<now, ivars, args, fvars, requested, mvars, cvars, tvars, away_wanted, wrote,
                   acked_as, away_waiters, idle_pc, idle_cancel,
                   idle_waiters, idle_wait>>

\* Every task of the group is done: Control.set_away returns to idle_away,
\* or raises the group's errors, or the cancellation.
ControlReturn ==
    /\ idle_pc = "set_away"
    /\ AllFinished
    /\ (Failed \/ idle_cancel) => tg_aborting
    /\ sa' = [k \in Conns |-> "none"]
    /\ away_wanted' = "None"
    /\ tg_aborting' = FALSE
    /\ wrote' = [k \in Conns |-> <<>>]
    /\ acked_as' = [k \in Conns |-> "None"]
    /\ IF Failed
       THEN /\ idle_pc' = "ExceptionGroup"
            /\ UNCHANGED <<idle_waiters, tfut, idle_wait>>
       ELSE IF idle_cancel
       THEN /\ idle_pc' = "cancelled"
            /\ UNCHANGED <<idle_waiters, tfut, idle_wait>>
       ELSE IdleWait(idle_waiters, idle_timer)
    /\ UNCHANGED <<now, ivars, args, fvars, requested, mvars, cvars, tvars, away_waiters,
                   idle_cancel>>

Next ==
    \/ Clock
    \/ \E k \in Conns : Connect(k)
    \/ \E k \in Conns, m \in Inbound : Recv(k, m)
    \/ \E k \in Conns : ReadEOF(k)
    \/ \E k \in Conns : ReadError(k)
    \/ MainAbort
    \/ \E k \in Conns : ConnCancelled(k)
    \/ MainExit
    \/ IdleTimeout
    \/ IdleResume
    \/ \E k \in Conns : SetAwayStart(k)
    \/ \E k \in Conns : SetAwayResume(k)
    \/ TaskGroupAbort
    \/ ControlReturn

Spec == Init /\ [][Next]_vars

\* The program on a command line that names one socket twice
SpecDuplicate == InitDuplicate /\ [][Next]_vars

\* The server of client k answers the AWAY command that k's set_away has
\* written and is waiting on: 306 to 'AWAY :Auto-away', 305 to 'AWAY'.
Acknowledges(k) ==
    /\ sa[k] = "waiting"
    /\ tfut[k] = "pending"
    /\ Recv(k, IF away_wanted = "True" THEN nowaway_e ELSE unaway_e)

\* The program on an event loop that runs every task that is ready and
\* every timer that is due, with sockets that accept the connections and
\* servers that acknowledge the AWAY commands of the clients connected to
\* them.  Nothing is assumed of the
\* clock, of the other lines, or of how long a connection lasts.
SpecFair ==
    /\ Spec
    /\ WF_vars(IdleTimeout) /\ WF_vars(IdleResume)
    /\ WF_vars(TaskGroupAbort) /\ WF_vars(ControlReturn)
    /\ WF_vars(MainAbort) /\ WF_vars(MainExit)
    /\ \A k \in Conns :
          /\ WF_vars(Connect(k)) /\ WF_vars(ConnCancelled(k))
          /\ WF_vars(SetAwayStart(k)) /\ WF_vars(SetAwayResume(k))
          /\ WF_vars(Acknowledges(k))

(* ==================== the idle controller alone ======================= *)
\* idle_away runs against a Control with no client: the connections are
\* never established, Control.set_away returns without suspending, and the
\* activity is given by the environment.
MaxIdleTime == DecayPeriods * backoff_decay + FineTicks
\* single ticks begin two base timeouts before the start of a period
LeadTicks == 2 * idle_timeout
\* the clock is near the start of a period
NearPeriodStart(clock) ==
    \/ clock % backoff_decay < FineTicks
    \/ clock % backoff_decay >= backoff_decay - LeadTicks
\* the ticks from clock to LeadTicks before the start of the next period
ToNextPeriod(clock) ==
    backoff_decay - LeadTicks - (clock % backoff_decay)
\* the steps of the clock
Steps(clock) == {1} \cup {d \in {ToNextPeriod(clock)} : d > 1}

\* Time passes by d ticks.  The event loop is not held up: a timeout that
\* is due fires before the clock moves on, and the clock skips a period
\* only while idle_away is suspended.
Elapse(d) ==
    /\ now + d <= MaxIdleTime
    /\ d = 1 => NearPeriodStart(now)
    /\ d > 1 => idle_pc = "wait" /\ ~done(tfut[IdleTask])
    /\ (idle_pc = "wait" /\ ~done(tfut[IdleTask])
            /\ idle_wait.timeout # NoTimeout)
          => now + d <= idle_wait.start + idle_wait.timeout
    /\ now' = now + d
    /\ UNCHANGED <<ivars, svars>>

\* A receive loop sees the user's own PRIVMSG: idle_interrupt.trigger()
Activity ==
    /\ tfut' = trigger(idle_waiters, tfut)
    /\ UNCHANGED <<now, ivars, args, fvars, requested, mvars, cvars, tvars, gvars,
                   away_waiters, idle_pc, idle_cancel, idle_waiters,
                   idle_wait>>

NextIdle ==
    \/ \E d \in Steps(now) : Elapse(d)
    \/ Activity
    \/ IdleTimeout
    \/ IdleResume

SpecIdle == Init /\ [][NextIdle]_vars

(* ========================= parse_line alone ============================ *)
\* The lines given to parse_line are put together from parts: leading
\* whitespace, a source prefix with its separator, a command, parameters
\* each preceded by a space, a gap, a trailing section (a colon and a text,
\* or None for no section) and a line terminator.
Spaces == {<<>>, <<" ">>}
Prefixes == {<<>>, <<":", "h", " ">>, <<":", "n", "!", "u", "@", "h", " ">>}
Commands == {<<"P", "I", "N", "G">>, <<"M", "o", "d", "e">>, <<"3", "0", "6">>}
Params == {<<>>, << <<"a">> >>, << <<"#", "b">> >>, << <<"a">>, <<"#", "b">> >>}
Gaps == {<<>>, <<" ">>, <<" ", " ">>}
Trailings ==
    {None, <<>>, <<"b">>, <<" ", "b", " ", "c">>, <<":">>, <<"b", " ">>}
Terminators == {<<"\r", "\n">>, <<"\n">>, <<"\r">>}
LineParts ==
    [space : Spaces, prefix : Prefixes, command : Commands, params : Params,
     gap : Gaps, trailing : Trailings, eol : Terminators]

RECURSIVE format_params(_)
format_params(ps) ==
    IF ps = <<>> THEN <<>>
    ELSE <<" ">> \o Head(ps) \o format_params(Tail(ps))

\* the text of the line
format_line(r) ==
    r.space \o r.prefix \o r.command \o format_params(r.params) \o r.gap
       \o (IF r.trailing = None THEN <<>> ELSE <<":">> \o r.trailing)
       \o r.eol

InitParse ==
    /\ now = 0
    /\ args = distinct_args
    /\ SystemIdle
    /\ InterruptIdle
    /\ line_parts \in LineParts
    /\ parsed = NotParsed
    /\ timer = NoTimer

\* src, args = parse_line(line)
Parse ==
    /\ parsed = NotParsed
    /\ parsed' = parse_line(format_line(line_parts))
    /\ UNCHANGED <<now, ivars, pvars, line_parts, timer>>

NextParse == Parse

SpecParse == InitParse /\ [][NextParse]_vars

(* ============================ Timer alone ============================== *)
\* One Timer is constructed at some instant, of some duration or by
\* Timer.never(), and the clock goes on; the clock may be read again before
\* it has moved.
Durations == {0, 1, idle_timeout, backoff_decay}

InitTimer ==
    /\ now = 0
    /\ args = distinct_args
    /\ SystemIdle
    /\ InterruptIdle
    /\ line_parts = NoValue
    /\ parsed = NotParsed
    /\ timer = NoTimer

\* Timer(duration)
Construct(duration) ==
    /\ timer = NoTimer
    /\ timer' = Timer(duration, now)
    /\ UNCHANGED <<now, ivars, pvars, line_parts, parsed>>

\* Timer.never()
ConstructNever ==
    /\ timer = NoTimer
    /\ timer' = never(now)
    /\ UNCHANGED <<now, ivars, pvars, line_parts, parsed>>

\* the clock moves by d ticks
TimerElapse(d) ==
    /\ now + d <= MaxIdleTime
    /\ d = 1 => NearPeriodStart(now)
    /\ now' = now + d
    /\ UNCHANGED <<ivars, svars>>

NextTimer ==
    \/ \E duration \in Durations : Construct(duration)
    \/ ConstructNever
    \/ \E d \in Steps(now) : TimerElapse(d)

SpecTimer == InitTimer /\ [][NextTimer]_vars

(* ================= one client and the idle controller ================== *)
\* Only the first proxy accepts the connection; it sends any of Lines and
\* does not close.
NextClient ==
    \/ Clock
    \/ Connect(1)
    \/ \E line_bytes \in Lines : Recv(1, line_bytes)
    \/ IdleTimeout
    \/ IdleResume
    \/ SetAwayStart(1)
    \/ SetAwayResume(1)
    \/ TaskGroupAbort
    \/ ControlReturn

SpecClient == Init /\ [][NextClient]_vars

(* ----------------- properties of Client and Control -------------------- *)
Starts(k)  == sa[k] = "created" /\ sa'[k] \in {"waiting", "done"}
Returns(k) == sa[k] = "waiting" /\ sa'[k] \in {"done", "failed"}
Completes(k) == sa[k] \in {"created", "waiting"} /\ sa'[k] = "done"
Calls   == idle_pc = "wait" /\ idle_pc' = "set_away"
ReturnsNormally == idle_pc = "set_away" /\ idle_pc' = "wait"

\* C5: a set_away call that finds is_away equal to wanted writes nothing,
\* registers no wait and is done at once; otherwise it writes the one
\* command for wanted and waits, and it resumes only after away_changed
\* fired for it, having written that one command.
C5_SetAwayWritesOnce ==
    [][\A k \in Conns :
          /\ Starts(k) =>
               IF is_away[k] = away_wanted
               THEN /\ sa'[k] = "done"
                    /\ wrote'[k] = <<>>
                    /\ away_waiters'[k] = away_waiters[k]
               ELSE /\ sa'[k] = "waiting"
                    /\ wrote'[k] = << IF away_wanted = "True"
                                      THEN "AWAY :Auto-away" ELSE "AWAY" >>
                    /\ away_waiters'[k] = <<k>>
          /\ sa[k] = "waiting" =>
               \/ wrote'[k] = wrote[k] /\ Len(wrote[k]) = 1
               \/ sa'[k] # "waiting"
          /\ Returns(k) => acked_as[k] # "None"]_vars

\* set_away(False) of some client wrote AWAY, and the acknowledgment has
\* fired away_changed for it.
C5_Witness ==
    \E k \in Conns :
       /\ away_wanted = "False"
       /\ sa[k] = "waiting"
       /\ wrote[k] = <<"AWAY">>
       /\ acked_as[k] = "False"

\* C6 as stated: a set_away that returns normally finds is_away equal to
\* wanted, and a set_away whose away_changed fired while is_away differed
\* from wanted fails.
C6_Original ==
    [][\A k \in Conns :
          /\ Completes(k) => is_away'[k] = away_wanted
          /\ (Returns(k) /\ acked_as[k] # away_wanted)
               => sa'[k] = "failed"]_vars

\* C6: a set_away that returns normally finds is_away equal to wanted, and
\* a set_away that resumes after away_changed fired fails exactly when
\* is_away differs from wanted at the moment it resumes.
C6_AssertAtResume ==
    [][\A k \in Conns :
          /\ Completes(k) => is_away'[k] = away_wanted
          /\ Returns(k) =>
               ((sa'[k] = "failed") <=> (is_away[k] # away_wanted))]_vars

\* A set_away call has failed its assertion: the acknowledgment was for
\* the opposite state.
C6_Witness ==
    \E k \in Conns : sa[k] = "failed" /\ is_away[k] # away_wanted

C8_SiblingsNotCancelled ==
    (Failed /\ ~idle_cancel) =>
        \A k \in Conns :
           /\ sa[k] # "cancelled"
           /\ ~(sa[k] = "waiting" /\ tfut[k] = "cancelled")

\* C9: a failed set_away does not end idle_away: the loop ends only by the
\* 'logically impossible' RuntimeError (or by cancellation at shutdown).
C9_ControllerSurvives ==
    idle_pc \in {"wait", "set_away", "RuntimeError", "cancelled"}

\* C10: a client whose connection is lost is removed from the map and its
\* writer is closed; no other client's receive loop is cancelled and
\* idle_away is not cancelled.
C10_LossIsIsolated ==
    /\ \A k \in Conns :
          conn[k] \in {"closed", "raised"} =>
             /\ clients[args[k]] # k
             /\ writer_closed[k]
    /\ \A k \in Conns :
          /\ conn[k] # "cancelling"
          /\ ~(conn[k] = "cancelled" /\ writer_closed[k])
    /\ idle_pc # "cancelled" /\ tfut[IdleTask] # "cancelled" /\ ~idle_cancel

(* ---------------- properties of the receive loop ---------------------- *)
\* What the lines mean, read off their text by the grammar of the
\* protocol: the away numerics with their target and the state they
\* announce, the PRIVMSGs with the nick of their source (a bare host is
\* not a nick), the NICK messages with the old and the new nick.
AwayNumerics == {unaway_e, nowaway_e, nowaway_x, unaway_f}
NumericTarget(line_bytes) ==
    CASE line_bytes \in {unaway_e, nowaway_e} -> <<"e">>
      [] line_bytes = nowaway_x -> <<"x">>
      [] line_bytes = unaway_f  -> <<"f">>
NumericAway(line_bytes) ==
    IF line_bytes \in {unaway_e, unaway_f} THEN "False" ELSE "True"
Privmsgs == {privmsg_e, privmsg_x, privmsg_f, privmsg_host_e}
PrivmsgNick(line_bytes) ==
    CASE line_bytes = privmsg_e -> <<"e">>
      [] line_bytes = privmsg_x -> <<"x">>
      [] line_bytes = privmsg_f -> <<"f">>
      [] line_bytes = privmsg_host_e -> None
NickMessages == {nick_e_f, nick_x_y}
NickFrom(line_bytes) == IF line_bytes = nick_e_f THEN <<"e">> ELSE <<"x">>
NickTo(line_bytes) == IF line_bytes = nick_e_f THEN <<"f">> ELSE <<"y">>
\* the futures after the Interrupt with waiters ws has fired
Fired(ws) ==
    [t \in Tasks |-> IF InSeq(ws, t) /\ tfut[t] = "pending" THEN "result"
                     ELSE tfut[t]]

\* C17: a 305 (306) whose target is the client's current nick sets is_away
\* to false (true) and fires the client's away_changed; a 305 or 306 for
\* another target changes no is_away and resolves no future.
C17_AwayNumerics ==
    [][\A line_bytes \in AwayNumerics :
          Recv(1, line_bytes) =>
             IF NumericTarget(line_bytes) = my_nick[1]
             THEN /\ is_away'[1] = NumericAway(line_bytes)
                  /\ tfut' = Fired(away_waiters[1])
             ELSE /\ is_away' = is_away
                  /\ tfut' = tfut]_vars

\* a 306 for the own nick has been processed while set_away(True) waited:
\* is_away is true and the waiting call is resolved
C17_Witness ==
    /\ away_wanted = "True"
    /\ sa[1] = "waiting"
    /\ tfut[1] = "result"
    /\ is_away[1] = "True"
    /\ acked_as[1] = "True"

\* C18: the receive loop fires idle_interrupt exactly for a PRIVMSG whose
\* source nick is the client's current nick, where a NICK message from the
\* current nick replaces it; every other line leaves the future, the
\* waiters and the timeout of idle_away's wait as they are.
C18_ActivityOnOwnPrivmsg ==
    [][\A line_bytes \in Lines :
          Recv(1, line_bytes) =>
             /\ IF /\ line_bytes \in Privmsgs
                   /\ PrivmsgNick(line_bytes) = my_nick[1]
                THEN tfut' = Fired(idle_waiters)
                ELSE tfut'[IdleTask] = tfut[IdleTask]
             /\ idle_waiters' = idle_waiters
             /\ idle_wait' = idle_wait
             /\ idle_pc' = idle_pc
             /\ my_nick'[1] = IF /\ line_bytes \in NickMessages
                                 /\ NickFrom(line_bytes) = my_nick[1]
                              THEN NickTo(line_bytes) ELSE my_nick[1]]_vars

\* the client has renamed itself to f, and an own PRIVMSG has resolved
\* idle_away's wait
C18_Witness ==
    /\ my_nick[1] = <<"f">>
    /\ idle_pc = "wait"
    /\ tfut[IdleTask] = "result"

(* -------------------- properties of parse_line ------------------------- *)
\* the commands in lower case
Lowered(command) ==
    CASE command = <<"P", "I", "N", "G">> -> <<"p", "i", "n", "g">>
      [] command = <<"M", "o", "d", "e">> -> <<"m", "o", "d", "e">>
      [] command = <<"3", "0", "6">> -> <<"3", "0", "6">>

\* C19: the args of a line of the grammar are the command in lower case,
\* the parameters, and then the text of the trailing section if and only
\* if the line has one: an empty text is appended as the empty string, and
\* a line without a colon section ends with its last parameter (or is the
\* command alone).
C19_TrailingEmptyOrAbsent ==
    parsed # NotParsed =>
        parsed.args = <<Lowered(line_parts.command)>>
                         \o line_parts.params
                         \o (IF line_parts.trailing = None THEN <<>>
                             ELSE <<line_parts.trailing>>)

\* a command with a colon and nothing after it has been parsed: the args
\* are the command and the empty string
C19_Witness ==
    /\ parsed # NotParsed
    /\ line_parts.params = <<>>
    /\ line_parts.trailing = <<>>
    /\ parsed.args = <<Lowered(line_parts.command), <<>> >>

(* ----------------------- properties of Timer --------------------------- *)
\* C20, as stated: a Timer of duration 0 is expired from its construction
\* on and is not a never-timer, and what Timer.never() returns is a
\* never-timer and is not expired at any instant.  It fails at the instant
\* of construction: is_expired compares strictly, and the clock read
\* again may not have moved.
C20_ZeroExpiredAtOnce ==
    /\ (timer # NoTimer /\ timer.duration = 0)
          => is_expired(timer, now) /\ ~is_never(timer)
    /\ (timer # NoTimer /\ timer.duration = inf)
          => is_never(timer) /\ ~is_expired(timer, now)

(* ---------------- properties of the client map ------------------------ *)
\* task k got a connection: unix_socket_client passed open_unix_connection
Connected(k) == my_nick[k] # None
\* task k has ended
Terminated(k) == conn[k] \in {"closed", "raised", "cancelled"}
\* task k is inside client.communicate()
Live(k) == conn[k] \in {"open", "cancelling"}

\* C11, as stated: every connection that has terminated, for whatever
\* reason, had its removal step succeed and its writer closed (the removal
\* does not fail on a missing entry), and every live connection has its own
\* entry in Control.clients.  It fails when one socket path is given twice:
\* the second connection overwrites the entry of the first, the first
\* termination deletes it, and the second `del` raises KeyError before
\* writer.close().
C11_RemovalSucceedsAndCloses ==
    \A k \in Conns :
        /\ Connected(k) /\ Terminated(k) => writer_closed[k]
        /\ Live(k) => clients[args[k]] = k

(* ----------------- properties of the idle controller ------------------ *)
\* an activity event has resolved idle_away's wait, which has not yet resumed
ActivityPending == idle_pc = "wait" /\ tfut[IdleTask] = "result"
\* idle_away's wait has timed out and has not yet resumed
TimeoutPending == idle_pc = "wait" /\ tfut[IdleTask] = "timeout"
\* the step in which idle_away resumes from an interrupted wait
ResumesInterrupted == ActivityPending /\ tfut'[IdleTask] # "result"
\* the step in which idle_away resumes from a wait that timed out
ResumesTimedOut == TimeoutPending /\ tfut'[IdleTask] # "timeout"
\* the clock is strictly inside the window of backoff_timer
InDeadzone ==
    /\ backoff_timer.started_at < now
    /\ now < backoff_timer.started_at + backoff_timer.duration
\* more than the decay duration has passed since decay_timer was started
DecayDue == decay_timer.started_at + backoff_decay < now

\* C12: in every state of the idle controller backoff_exp lies between 0
\* and backoff_max_exp, whatever the sequence of activity and timeouts.
C12_BackoffExpInRange == backoff_exp \in 0..backoff_max_exp

\* backoff_exp is at the maximum after an interrupted branch, and the next
\* activity has arrived inside the deadzone window again
C12_Witness ==
    /\ backoff_exp = backoff_max_exp
    /\ requested = <<"False">>
    /\ ActivityPending
    /\ is_running(backoff_timer, now)

\* C13, as stated: every activity processed while backoff_timer is running
\* raises backoff_exp by one, up to backoff_max_exp and no further.
C13_Original ==
    [][(ResumesInterrupted /\ InDeadzone)
          => backoff_exp' = IF backoff_exp < backoff_max_exp
                            THEN backoff_exp + 1 ELSE backoff_max_exp]_vars

\* C13, amended: an activity processed inside the deadzone window raises
\* backoff_exp by one, up to backoff_max_exp, provided decay_timer has not
\* expired; if it has, the same iteration also takes one off again, so
\* that backoff_exp stays as it was below the maximum and drops by one at
\* the maximum.  An activity outside the window never raises backoff_exp.
C13_RaisedUnlessDecayDue ==
    [][ResumesInterrupted =>
          /\ (InDeadzone /\ ~DecayDue)
                => backoff_exp' = IF backoff_exp < backoff_max_exp
                                  THEN backoff_exp + 1 ELSE backoff_max_exp
          /\ (InDeadzone /\ DecayDue)
                => backoff_exp' = IF backoff_exp < backoff_max_exp
                                  THEN backoff_exp ELSE backoff_max_exp - 1
          /\ ~InDeadzone => backoff_exp' <= backoff_exp]_vars

\* three activities inside the window have raised backoff_exp from 0 to the
\* maximum before any decay
C13_Witness ==
    /\ backoff_exp = backoff_max_exp
    /\ requested = <<"False">>
    /\ decay_timer.started_at = 0
    /\ now <= backoff_decay

\* the decay periods that have fully elapsed since decay_timer was started
PeriodsElapsed ==
    IF DecayDue THEN (now - decay_timer.started_at - 1) \div backoff_decay
    ELSE 0

\* C14, as stated: the activity that ends a stretch longer than the decay
\* duration finds backoff_exp decreased by one for each decay period that
\* has elapsed, down to zero.
C14_Original ==
    [][(ResumesInterrupted /\ ~InDeadzone)
          => backoff_exp' = IF backoff_exp > PeriodsElapsed
                            THEN backoff_exp - PeriodsElapsed ELSE 0]_vars

\* C14, amended: backoff_exp is decreased only in the iteration that
\* processes an activity after decay_timer has expired, by exactly one
\* however many periods have elapsed, and not below zero; that iteration
\* restarts decay_timer.  Every other step leaves decay_timer alone and
\* does not decrease backoff_exp.
C14_OneDecrementPerExpiry ==
    [][/\ (ResumesInterrupted /\ DecayDue)
            => /\ decay_timer' = [started_at |-> now,
                                  duration |-> backoff_decay]
               /\ backoff_exp' =
                     IF InDeadzone
                     THEN (IF backoff_exp < backoff_max_exp
                           THEN backoff_exp ELSE backoff_max_exp - 1)
                     ELSE (IF backoff_exp > 0 THEN backoff_exp - 1 ELSE 0)
       /\ ~(ResumesInterrupted /\ DecayDue)
            => /\ decay_timer' = decay_timer
               /\ backoff_exp' >= backoff_exp]_vars

\* two whole decay periods after the start, the first activity since then
\* has taken backoff_exp from 2 to 1
C14_Witness ==
    /\ now = 2 * backoff_decay + 1
    /\ decay_timer.started_at = now
    /\ requested = <<"False">>
    /\ backoff_exp = 1

\* idle_timer is the never-expiring sentinel / an ordinary timer
IdleNever == idle_timer.duration >= inf
\* the deadline of idle_timer has passed
IdleDeadlinePassed ==
    ~IdleNever /\ idle_timer.started_at + idle_timer.duration < now
\* the step in which idle_away calls Control.set_away(True)
CallsAway ==
    (ResumesInterrupted \/ ResumesTimedOut) /\ requested' = <<"True">>

CallsBack ==
    (ResumesInterrupted \/ ResumesTimedOut) /\ requested' = <<"False">>

\* C16: the iteration that processes an activity calls
\* Control.set_away(False) once, with idle_timer replaced by a timer
\* started now of duration idle_timeout * backoff_factor^backoff_exp, for
\* the updated backoff_exp, and backoff_timer by a window of that duration
\* times backoff_deadzone centred on the new idle deadline; nothing else
\* calls set_away(False).
C16_BackOncePerActivity ==
    [][/\ ResumesInterrupted
            => /\ requested' = <<"False">>
               /\ idle_timer'.started_at = now
               /\ idle_timer'.duration
                     = idle_timeout * (backoff_factor ^ backoff_exp')
               /\ backoff_timer'.duration
                     = idle_timer'.duration * backoff_deadzone
               /\ 2 * backoff_timer'.started_at + backoff_timer'.duration
                     = 2 * (now + idle_timer'.duration)
       /\ CallsBack => ResumesInterrupted]_vars

\* after two increments an activity has been processed: set_away(False)
\* was called with the idle timer at four times the base timeout and the
\* window around its deadline
C16_Witness ==
    /\ requested = <<"False">>
    /\ backoff_exp = 2
    /\ idle_timer = [started_at |-> now, duration |-> 4 * idle_timeout]
    /\ backoff_timer = [started_at |-> now + 2 * idle_timeout,
                        duration |-> 4 * idle_timeout]

\* C21: idle_away never reaches the branch that raises
\* RuntimeError('logically impossible'): whenever its wait returns
\* not-interrupted, also exactly at the deadline of idle_timer,
\* idle_timer.is_expired is true.
C21_NeverLogicallyImpossible == idle_pc # "RuntimeError"

\* the step in which idle_away takes its idle-expiry branch
TakesExpiryBranch == ResumesTimedOut /\ requested' = <<"True">>

\* C22: the idle-expiry branch leaves backoff_exp, backoff_timer and
\* decay_timer as they are, and so does every step of the idle controller
\* other than the interrupted branch: decay_timer is restarted and
\* backoff_exp changed only when an activity is processed, however long
\* the idle stretch.
C22_ExpiryBranchFrame ==
    [][/\ TakesExpiryBranch
            => UNCHANGED <<backoff_exp, backoff_timer, decay_timer>>
       /\ ~UNCHANGED <<backoff_exp, backoff_timer, decay_timer>>
            => ResumesInterrupted]_vars

\* the expiry branch was taken with a positive backoff_exp after
\* decay_timer had expired, and the controller has been idle for more
\* than a further decay period since, decay_timer still the first one
C22_Witness ==
    /\ requested = <<"True">>
    /\ IdleNever
    /\ backoff_exp >= 1
    /\ decay_timer.started_at = 0
    /\ decay_timer.started_at + backoff_decay < idle_wait.start
    /\ idle_wait.start + backoff_decay < now

\* idle_away is suspended: in Interrupt.wait with its future unresolved,
\* or in Control.set_away
ControllerSuspended ==
    \/ idle_pc = "wait" /\ tfut[IdleTask] = "pending"
    \/ idle_pc = "set_away"

\* C23: no activity is lost: when a receive loop processes a PRIVMSG of
\* the client's own nick while idle_away is suspended, in Interrupt.wait
\* or in Control.set_away, the interrupted branch of idle_away is pending
\* afterwards and runs without a further PRIVMSG.
C23_NoActivityLost ==
    [][\A k \in Conns :
          (/\ Recv(k, privmsg_e)
           /\ my_nick[k] = <<"e">>
           /\ ControllerSuspended)
          => ActivityPending']_vars

(* ------------------ properties of Control.set_away -------------------- *)
\* C24: with servers that acknowledge the AWAY commands of the clients
\* connected to them, every call of Control.set_away eventually returns
\* to idle_away (or raises), also when a connection closes while its
\* client's set_away waits for the acknowledgment.
C24_SetAwayReturns == (idle_pc = "set_away") ~> (idle_pc # "set_away")

\* the acknowledgments addressed to the client's nick
OwnAcks == {unaway_e, nowaway_e}

\* C25: no wake-up is lost in Client.set_away: from the step that writes
\* the AWAY command until the call resumes, the call is registered on
\* away_changed, so every 305/306 for the own nick that the receive loop
\* processes while the call is still pending resolves it.
C25_NoLostWakeUp ==
    [][\A k \in Conns :
          /\ wrote[k] # <<>>
                => sa[k] = "waiting" /\ InSeq(away_waiters[k], k)
          /\ \A line_bytes \in OwnAcks :
                (/\ Recv(k, line_bytes)
                 /\ my_nick[k] = <<"e">>
                 /\ wrote[k] # <<>>
                 /\ tfut[k] = "pending")
                => tfut'[k] = "result"]_vars

\* both clients have written 'AWAY' for a set_away(False), and the 305 of
\* the second has resolved its call while the first still waits
C25_Witness ==
    /\ away_wanted = "False"
    /\ wrote = [k \in Conns |-> <<awaycmd("False")>>]
    /\ tfut[1] = "pending"
    /\ tfut[2] = "result"
    /\ is_away[2] = "False"

(* --------------------- properties of the Interrupt --------------------- *)
Resumes(w) == wpc[w] = "waiting" /\ wpc'[w] = "idle"
Registers(w) == wpc[w] = "idle" /\ wpc'[w] = "waiting"

\* C1: one trigger() call resolves every waiter whose wait is pending at
\* that moment, however many there are, and a wait resolved by trigger()
\* returns True.
C1_TriggerResolvesAll ==
    [][\A w \in Waiters :
          /\ (fut[w] = "pending" /\ ~trigd[w] /\ trigd'[w])
                => fut'[w] = "result"
          /\ (Resumes(w) /\ fut[w] = "result") => ret'[w] = "True"]_vars

\* Every task is suspended in a wait() without timeout, and all of them
\* have been resolved by trigger().
C1_Witness ==
    /\ Len(waiters) = NWaiters
    /\ \A w \in Waiters :
          wpc[w] = "waiting" /\ wtimeout[w] = NoTimeout /\ fut[w] = "result"

\* C2: the Interrupt is not latched.  A wait() that registers after a
\* trigger() starts pending, and a wait() returns True only if trigger()
\* was called while it was registered.
C2_NoLatch ==
    [][\A w \in Waiters :
          /\ Registers(w) => fut'[w] = "pending"
          /\ (wpc'[w] = "waiting" /\ ~trigd'[w]) => fut'[w] # "result"
          /\ (Resumes(w) /\ ret'[w] = "True") => trigd[w]]_vars

\* trigger() has been called, and a wait() registered after it is still
\* pending.
C2_Witness ==
    /\ everTrig
    /\ \E w \in Waiters :
          wpc[w] = "waiting" /\ ~trigd[w] /\ fut[w] = "pending"

\* C3: a wait() that returns False had a timeout, and the timeout has
\* elapsed since it registered; a wait() during which trigger() was not
\* called does not return True, and without a timeout it does not return
\* at all (it can only be cancelled).
C3_TimeoutNotEarly ==
    [][\A w \in Waiters :
          /\ (Resumes(w) /\ ret'[w] = "False")
                => /\ wtimeout[w] # NoTimeout
                   /\ now - wstart[w] >= wtimeout[w]
          /\ (Resumes(w) /\ ~trigd[w]) => ret'[w] # "True"
          /\ (Resumes(w) /\ ~trigd[w] /\ wtimeout[w] = NoTimeout)
                => ret'[w] = "CancelledError"
          /\ (fut[w] = "pending" /\ fut'[w] = "timeout")
                => now - wstart[w] >= wtimeout[w]]_vars

\* A wait() with a timeout of at least one tick returned False.
C3_Witness ==
    \E w \in Waiters :
        wpc[w] = "idle" /\ ret[w] = "False" /\ wtimeout[w] >= 1

NoDuplicates(ws) ==
    \A i, j \in 1..Len(ws) : ws[i] = ws[j] => i = j

\* C4: every future in _waiters belongs to a wait() call that has not
\* returned, each call has one future there, and set_result is never
\* called on a future that is done.
C4_WaitersAreLive ==
    /\ \A i \in 1..Len(waiters) : wpc[waiters[i]] = "waiting"
    /\ NoDuplicates(waiters)
    /\ \A w \in Waiters : wpc[w] = "waiting" => InSeq(waiters, w)
    /\ \A w \in Waiters : fut[w] # "invalid"

\* One wait() has ended by cancellation and another by trigger or by
\* timeout, and nothing is left registered.
C4_Witness ==
    /\ waiters = <<>>
    /\ \E v, w \in Waiters :
          /\ ret[v] = "CancelledError"
          /\ ret[w] \in {"True", "False"}

====
